---- MODULE Spec2Model ----
(***************************************************************************)
(* A model of src/CPU.py: the MemoryBus (backing store), the Cache in      *)
(* front of it, and the CPU's fetch/execute loop.                          *)
(*                                                                         *)
(* Python values are modelled as tagged records, so that None, an int and  *)
(* a (data, count) tuple are three different results:                      *)
(*     None            [kind |-> "None"]                                   *)
(*     42              [kind |-> "int", val |-> 42]                        *)
(*     (42, 1)         [kind |-> "tuple", val |-> 42, cnt |-> 1]           *)
(* A dict is a function whose DOMAIN is its key set; cache_lines, whose    *)
(* iteration order min() depends on, is the sequence of its items in       *)
(* insertion order.                                                        *)
(***************************************************************************)
EXTENDS Integers, Sequences, FiniteSets, TLC

\* ------------------------------------------------------------- bounds
MaxCapacity == 2      \* capacities 1..MaxCapacity are explored
MaxCounter == 5       \* cache calls stop once a usage count reaches this
MaxProgLen == 2       \* every program of 0..MaxProgLen lines over InstrSet is run
MaxRegVal == 10       \* ADD/ADDI stop once the sum would exceed this
MaxPrinted == 3       \* CACHE stops once this many values were printed

Addrs == {1, 2, 3}    \* addresses the store may hold
Vals == {7, 42}       \* data values

VARIABLES
    data_lines,     \* MemoryBus.data_lines : dict address -> int
    capacity,       \* Cache.capacity
    cache_lines,    \* Cache.cache_lines : items [addr, data, cnt] in insertion order
    call,           \* the last Cache call: [op, addr, data]
    ret,            \* what the last Cache call returned
    pre_lines,      \* cache_lines when the last Cache call was entered
    pre_data,       \* data_lines when the last Cache call was entered
    access_order,   \* resident addresses, least recently accessed first
    registers,      \* CPU.registers : dict name -> int
    PC,             \* CPU.PC
    running,        \* CPU.running
    instructions,   \* CPU.instructions : the lines, 0-based in the code, 1-based here
    run_status,     \* CPU.run: "idle" (not called), "loop", "returned", or the
                    \* name of the exception that left it
    printed         \* the values print() has written, in order

cache_vars == <<data_lines, capacity, cache_lines, call, ret, pre_lines, pre_data,
                access_order>>
cpu_vars == <<registers, PC, running, instructions, run_status, printed>>
vars == <<cache_vars, cpu_vars>>

\* ------------------------------------------------------ Python values
None == [kind |-> "None"]
IntV(v) == [kind |-> "int", val |-> v]
TupleV(v, c) == [kind |-> "tuple", val |-> v, cnt |-> c]

\* ---------------------------------------------------------- MemoryBus
\* data_lines.get(address, None)
MemoryBusRead(d, address) ==
    IF address \in DOMAIN d THEN IntV(d[address]) ELSE None

\* data_lines[address] = data
MemoryBusWrite(d, address, data) ==
    [x \in (DOMAIN d) \cup {address} |-> IF x = address THEN data ELSE d[x]]

\* -------------------------------------------------------------- Cache
Keys(lines) == {lines[i].addr : i \in 1..Len(lines)}

\* address in self.cache_lines
Resident(lines, address) == address \in Keys(lines)

IndexOf(lines, address) == CHOOSE i \in 1..Len(lines) : lines[i].addr = address

\* self.cache_lines[address]
Line(lines, address) == lines[IndexOf(lines, address)]

\* min(self.cache_lines.keys(), key=lambda k: self.cache_lines[k][1]):
\* the first key, in iteration order, whose count is minimal
LeastRecentlyUsed(lines) ==
    LET i == CHOOSE i \in 1..Len(lines) :
                 /\ \A j \in 1..Len(lines) : lines[i].cnt <= lines[j].cnt
                 /\ \A j \in 1..(i - 1) : lines[j].cnt > lines[i].cnt
    IN  lines[i].addr

\* self.cache_lines.pop(key)
Pop(lines, key) == SelectSeq(lines, LAMBDA e : e.addr # key)

\* mutant: the loop leaves out the item that was just inserted, the last one
IncrementAll_SkipsNewest(lines) ==
    [i \in 1..Len(lines) |->
        IF i = Len(lines) THEN lines[i] ELSE [lines[i] EXCEPT !.cnt = @ + 1]]

\* the loop of lines 77-78: every item's count goes up by one
IncrementAll(lines) ==
    [i \in 1..Len(lines) |-> [lines[i] EXCEPT !.cnt = @ + 1]]

\* mutant: the eviction test is `>` where the code has `>=`
MakeRoom_OffByOne(lines, cap) ==
    IF Len(lines) > cap THEN Pop(lines, LeastRecentlyUsed(lines)) ELSE lines

\* lines 71-73: make room when the cache is full
MakeRoom(lines, cap) ==
    IF Len(lines) >= cap THEN Pop(lines, LeastRecentlyUsed(lines)) ELSE lines

\* mutant: a miss on a full cache returns the data without caching it
CacheReadLines_SkipWhenFull(lines, d, cap, address) ==
    IF Resident(lines, address)
    THEN lines
    ELSE LET data == MemoryBusRead(d, address)
         IN  IF data # None /\ Len(lines) < cap
             THEN IncrementAll(Append(lines,
                                      [addr |-> address, data |-> data.val, cnt |-> 0]))
             ELSE lines

\* mutant: room is made before the store's answer is tested for None
CacheReadLines_EvictBeforeCheck(lines, d, cap, address) ==
    IF Resident(lines, address)
    THEN lines
    ELSE LET data == MemoryBusRead(d, address)
         IN  IF data # None
             THEN IncrementAll(Append(MakeRoom(lines, cap),
                                      [addr |-> address, data |-> data.val, cnt |-> 0]))
             ELSE MakeRoom(lines, cap)

\* Cache.read, its effect on cache_lines
CacheReadLines(lines, d, cap, address) ==
    IF Resident(lines, address)
    THEN lines
    ELSE LET data == MemoryBusRead(d, address)
         IN  IF data # None
             THEN IncrementAll(Append(MakeRoom(lines, cap),
                                      [addr |-> address, data |-> data.val, cnt |-> 0]))
             ELSE lines

\* Cache.read, its return value
CacheReadRet(lines, d, address) ==
    IF Resident(lines, address)
    THEN TupleV(Line(lines, address).data, Line(lines, address).cnt)
    ELSE MemoryBusRead(d, address)

\* mutant: a write to an address that is not resident creates its line
CacheWriteLines_Allocate(lines, address, data) ==
    IF Resident(lines, address)
    THEN [i \in 1..Len(lines) |->
            IF lines[i].addr = address
            THEN [addr |-> address, data |-> data, cnt |-> 0]
            ELSE [lines[i] EXCEPT !.cnt = @ + 1]]
    ELSE Append(lines, [addr |-> address, data |-> data, cnt |-> 0])

\* mutant: the loop lacks `if key != address`, as the loop of Cache.read does
CacheWriteLines_IncrementsAll(lines, address, data) ==
    IF Resident(lines, address)
    THEN [i \in 1..Len(lines) |->
            IF lines[i].addr = address
            THEN [addr |-> address, data |-> data, cnt |-> 1]
            ELSE [lines[i] EXCEPT !.cnt = @ + 1]]
    ELSE lines

\* mutant: a write hit resets the count but keeps the cached value
CacheWriteLines_KeepsValue(lines, address, data) ==
    IF Resident(lines, address)
    THEN [i \in 1..Len(lines) |->
            IF lines[i].addr = address
            THEN [lines[i] EXCEPT !.cnt = 0]
            ELSE [lines[i] EXCEPT !.cnt = @ + 1]]
    ELSE lines

\* Cache.write, its effect on cache_lines (lines 91-96)
CacheWriteLines(lines, address, data) ==
    IF Resident(lines, address)
    THEN [i \in 1..Len(lines) |->
            IF lines[i].addr = address
            THEN [addr |-> address, data |-> data, cnt |-> 0]
            ELSE [lines[i] EXCEPT !.cnt = @ + 1]]
    ELSE lines

\* mutant: the store is written only where it already holds a value
CacheWriteStore_OnlyExisting(d, address, data) ==
    IF address \in DOMAIN d THEN MemoryBusWrite(d, address, data) ELSE d

\* Cache.write, its effect on the store (line 89)
CacheWriteStore(d, address, data) == MemoryBusWrite(d, address, data)

\* ---------------------------------------------- access history (ghost)
\* access_order is a history variable: the code keeps no such list. It records
\* the order of the accesses the calls make, to state what "least recently
\* used" means independently of the counts.
\* address becomes the most recently accessed of the resident addresses
Touch(order, lines, address) ==
    LET kept == SelectSeq(order, LAMBDA k : k \in Keys(lines) /\ k # address)
    IN  IF address \in Keys(lines) THEN Append(kept, address) ELSE kept

\* the model's cap on the usage counts, which the code lets grow without limit
CounterRoom == \A i \in 1..Len(cache_lines) : cache_lines[i].cnt < MaxCounter

\* ---------------------------------------------------------------- CPU
\* A stripped line of the instruction file is the sequence of its tokens,
\* the commas among them: "J,0" is <<"J", ",", "0">>, the empty line << >>.
\* No two tokens of a line are adjacent without a comma between them.
Comma == ","

HasComma(line) == \E i \in 1..Len(line) : line[i] = Comma

FirstComma(line) ==
    CHOOSE i \in 1..Len(line) : line[i] = Comma /\ \A j \in 1..(i - 1) : line[j] # Comma

\* the text between two commas, "" when there is none
Field(tokens) == IF tokens = << >> THEN "" ELSE tokens[1]

\* instruction.split(',') : "".split(',') is [''], "J,0".split(',') is ['J', '0']
RECURSIVE Split(_)
Split(line) ==
    IF HasComma(line)
    THEN <<Field(SubSeq(line, 1, FirstComma(line) - 1))>>
             \o Split(SubSeq(line, FirstComma(line) + 1, Len(line)))
    ELSE <<Field(line)>>

\* int(text) for the literals the programs use; any other text is a ValueError
IntLiterals == ("0" :> 0) @@ ("1" :> 1) @@ ("5" :> 5) @@ ("99" :> 99)
                   @@ ("-1" :> (0 - 1)) @@ ("-9" :> (0 - 9))
IsInt(text) == text \in DOMAIN IntLiterals
IntOf(text) == IntLiterals[text]

\* `if instruction:` : a string is true unless it is empty
Truthy(line) == line # << >>

\* self.instructions[pc], with Python's indexing: 0-based, negative from the end
InRange(pc) == pc < Len(instructions) /\ pc >= 0 - Len(instructions)
At(pc) == IF pc >= 0 THEN instructions[pc + 1]
                     ELSE instructions[Len(instructions) + pc + 1]

\* fetch_instruction returns an instruction and has advanced PC
Fetches == run_status = "loop" /\ running /\ PC < Len(instructions) /\ InRange(PC)
Opcode == Split(At(PC))[1]
Parts == Split(At(PC))
Executes(opcode) == Fetches /\ Truthy(At(PC)) /\ Opcode = opcode

\* mutant: `+=` where the code has `=`
SetRegister_Accumulates(regs, dest, value) ==
    [r \in (DOMAIN regs) \cup {dest} |->
        IF r # dest THEN regs[r]
        ELSE IF dest \in DOMAIN regs THEN regs[dest] + value ELSE value]

\* registers[dest] = value : an unknown dest becomes a new key
SetRegister(regs, dest, value) ==
    [r \in (DOMAIN regs) \cup {dest} |-> IF r = dest THEN value ELSE regs[r]]

\* the model's cap on register values, which the code lets grow without limit
RegRoom(value) == value <= MaxRegVal

\* ------------------------------------------------------------ actions
Stores == UNION {[S -> Vals] : S \in SUBSET Addrs}

\* the state after MemoryBus(), load_data, Cache(capacity, bus) and CPU(cache)
InitCache ==
    /\ capacity \in 1..MaxCapacity
    /\ cache_lines = << >>
    /\ call = [op |-> "none"]
    /\ ret = None
    /\ pre_lines = << >>
    /\ pre_data = data_lines
    /\ access_order = << >>

InitCPU ==
    /\ registers = [r \in {"R1", "R2", "R3"} |-> 0]
    /\ PC = 0
    /\ running = TRUE
    /\ printed = << >>

Init ==
    /\ data_lines \in Stores
    /\ InitCache
    /\ InitCPU
    /\ instructions = << >>
    /\ run_status = "idle"

\* Cache.read(address)
CacheReadCall(address) ==
    /\ CounterRoom
    /\ call' = [op |-> "read", addr |-> address]
    /\ pre_lines' = cache_lines
    /\ pre_data' = data_lines
    /\ ret' = CacheReadRet(cache_lines, data_lines, address)
    /\ cache_lines' = CacheReadLines(cache_lines, data_lines, capacity, address)
    /\ access_order' = Touch(access_order, cache_lines', address)
    /\ UNCHANGED <<data_lines, capacity>>

\* Cache.write(address, data)
CacheWriteCall(address, data) ==
    /\ CounterRoom
    /\ call' = [op |-> "write", addr |-> address, data |-> data]
    /\ pre_lines' = cache_lines
    /\ pre_data' = data_lines
    /\ ret' = None
    /\ data_lines' = CacheWriteStore(data_lines, address, data)
    /\ cache_lines' = CacheWriteLines(cache_lines, address, data)
    /\ access_order' = Touch(access_order, cache_lines', address)
    /\ UNCHANGED capacity

\* a caller reads through the cache
CacheRead(address) == CacheReadCall(address) /\ UNCHANGED cpu_vars

\* a caller writes through the cache
CacheWrite(address, data) == CacheWriteCall(address, data) /\ UNCHANGED cpu_vars

\* -------------------------------------------------------------- CPU.run
\* the lines a program is made of
InstrSet == {
    <<"HALT">>,
    <<"ADDI", ",", "R1", ",", "R2", ",", "5">>,
    <<"ADD", ",", "R3", ",", "R1", ",", "R2">>,
    <<"ADDI", ",", "R1", ",", "R1", ",", "1">>,
    <<"ADDI", ",", "R9", ",", "R1", ",", "1">>,
    <<"ADD", ",", "R1", ",", "R9", ",", "R2">>,
    <<"ADD", ",", "R1", ",", "R1", ",", "R2">>,
    <<"J", ",", "0">>,
    <<"J", ",", "5">>,
    <<"J", ",", "-1">>,
    <<"J", ",", "-9">>,
    <<"J">>,
    <<"CACHE", ",", "1">>,
    <<"CACHE", ",", "99">>,
    <<"NOP">>,
    << >> }

ScenarioB == << <<"ADDI", ",", "R1", ",", "R2", ",", "5">>,
                <<"ADD", ",", "R3", ",", "R1", ",", "R2">>,
                <<"HALT">>,
                <<"ADDI", ",", "R1", ",", "R1", ",", "1">> >>

Programs == UNION {[1..n -> InstrSet] : n \in 0..MaxProgLen} \cup {ScenarioB}

\* the store of the scenarios: address 1 holds 42, address 2 holds 7
SeedA == (1 :> 42) @@ (2 :> 7)

\* the state when run() is entered, after load_data and load_instructions
InitRun ==
    /\ data_lines = SeedA
    /\ InitCache
    /\ InitCPU
    /\ instructions \in Programs
    /\ run_status = "loop"

\* an exception leaves execute_instruction and run; fetch has advanced PC
Raise(exception) ==
    /\ run_status' = exception
    /\ PC' = PC + 1
    /\ UNCHANGED <<registers, running, instructions, printed, cache_vars>>

\* the loop ends: running is false, fetch returned None, or the line is empty
RunReturn ==
    /\ run_status = "loop"
    /\ \/ ~running /\ PC' = PC
       \/ running /\ PC >= Len(instructions) /\ PC' = PC
       \/ Fetches /\ ~Truthy(At(PC)) /\ PC' = PC + 1
    /\ run_status' = "returned"
    /\ UNCHANGED <<registers, running, instructions, printed, cache_vars>>

\* self.instructions[self.PC] with PC below -len: IndexError, PC not advanced
RunFetchError ==
    /\ run_status = "loop" /\ running
    /\ PC < Len(instructions) /\ ~InRange(PC)
    /\ run_status' = "IndexError"
    /\ UNCHANGED <<PC, registers, running, instructions, printed, cache_vars>>

\* opcode == "HALT"
RunHALT ==
    /\ Executes("HALT")
    /\ running' = FALSE
    /\ PC' = PC + 1
    /\ UNCHANGED <<registers, instructions, run_status, printed, cache_vars>>

\* opcode == "ADDI": _, dest, src, immediate = parts
RunADDI ==
    /\ Executes("ADDI")
    /\ IF Len(Parts) # 4 THEN Raise("ValueError")
       ELSE IF Parts[3] \notin DOMAIN registers THEN Raise("KeyError")
       ELSE IF ~IsInt(Parts[4]) THEN Raise("ValueError")
       ELSE /\ RegRoom(registers[Parts[3]] + IntOf(Parts[4]))
            /\ registers' = SetRegister(registers, Parts[2],
                                        registers[Parts[3]] + IntOf(Parts[4]))
            /\ PC' = PC + 1
            /\ UNCHANGED <<running, instructions, run_status, printed, cache_vars>>

\* opcode == "ADD": _, dest, src1, src2 = parts
RunADD ==
    /\ Executes("ADD")
    /\ IF Len(Parts) # 4 THEN Raise("ValueError")
       ELSE IF Parts[3] \notin DOMAIN registers \/ Parts[4] \notin DOMAIN registers
            THEN Raise("KeyError")
       ELSE /\ RegRoom(registers[Parts[3]] + registers[Parts[4]])
            /\ registers' = SetRegister(registers, Parts[2],
                                        registers[Parts[3]] + registers[Parts[4]])
            /\ PC' = PC + 1
            /\ UNCHANGED <<running, instructions, run_status, printed, cache_vars>>

\* opcode == "J": _, address = parts; self.PC = int(address)
RunJ ==
    /\ Executes("J")
    /\ IF Len(Parts) # 2 \/ ~IsInt(Parts[Len(Parts)]) THEN Raise("ValueError")
       ELSE /\ PC' = IntOf(Parts[2])
            /\ UNCHANGED <<registers, running, instructions, run_status, printed,
                           cache_vars>>

\* mutant: reporting the value fails when the read returned None
RunCACHE_RaisesOnAbsent ==
    /\ Executes("CACHE")
    /\ IF Len(Parts) # 2 \/ ~IsInt(Parts[Len(Parts)]) THEN Raise("ValueError")
       ELSE IF CacheReadRet(cache_lines, data_lines, IntOf(Parts[2])) = None
            THEN Raise("TypeError")
       ELSE /\ Len(printed) < MaxPrinted
            /\ CacheReadCall(IntOf(Parts[2]))
            /\ printed' = Append(printed, ret')
            /\ PC' = PC + 1
            /\ UNCHANGED <<registers, running, instructions, run_status>>

\* opcode == "CACHE": data = self.cache.read(int(address)); print(data)
RunCACHE ==
    /\ Executes("CACHE")
    /\ IF Len(Parts) # 2 \/ ~IsInt(Parts[Len(Parts)]) THEN Raise("ValueError")
       ELSE /\ Len(printed) < MaxPrinted
            /\ CacheReadCall(IntOf(Parts[2]))
            /\ printed' = Append(printed, ret')
            /\ PC' = PC + 1
            /\ UNCHANGED <<registers, running, instructions, run_status>>

\* mutant: a final else branch raises on an opcode it does not know
RunOther_Raises ==
    /\ Fetches /\ Truthy(At(PC))
    /\ Opcode \notin {"HALT", "ADDI", "ADD", "J", "CACHE"}
    /\ Raise("ValueError")

\* any other opcode: no branch of execute_instruction is taken
RunOther ==
    /\ Fetches /\ Truthy(At(PC))
    /\ Opcode \notin {"HALT", "ADDI", "ADD", "J", "CACHE"}
    /\ PC' = PC + 1
    /\ UNCHANGED <<registers, running, instructions, run_status, printed, cache_vars>>

NextRun ==
    \/ RunReturn
    \/ RunFetchError
    \/ RunHALT
    \/ RunADDI
    \/ RunADD
    \/ RunJ
    \/ RunCACHE
    \/ RunOther

SpecRun == InitRun /\ [][NextRun]_vars

\* run is one synchronous loop: while an iteration can be made, one is made
SpecRunFair == SpecRun /\ WF_vars(NextRun)

Next ==
    \/ \E a \in Addrs : CacheRead(a)
    \/ \E a \in Addrs, v \in Vals : CacheWrite(a, v)

Spec == Init /\ [][Next]_vars

\* ------------------------------------------------- the last Cache call
WasRead == call.op = "read"
WasWrite == call.op = "write"
WasHit == Resident(pre_lines, call.addr)
\* the addresses the last call removed from the cache
EvictedKeys == Keys(pre_lines) \ Keys(cache_lines)

\* C1: the number of resident cache entries never exceeds the capacity.
C1_SizeWithinCapacity ==
    /\ Len(cache_lines) <= capacity
    /\ Cardinality(Keys(cache_lines)) = Len(cache_lines)

\* a read miss on a full cache has just replaced a line
C1_Witness ==
    /\ WasRead /\ ~WasHit
    /\ Len(pre_lines) = capacity
    /\ EvictedKeys # {}
    /\ Len(cache_lines) = capacity

\* C2: write-through: after Cache.write(a, v) the store reads v at a,
\* whether or not a was resident.
C2_WriteThrough ==
    WasWrite => MemoryBusRead(data_lines, call.addr) = IntV(call.data)

\* a write of a new value to an address the store did not hold and the
\* cache, which holds other lines, did not hold either
C2_Witness ==
    /\ WasWrite /\ ~WasHit
    /\ pre_lines # << >>
    /\ call.addr \notin DOMAIN pre_data
    /\ MemoryBusRead(data_lines, call.addr) = IntV(call.data)

\* C3: no-write-allocate: Cache.write on a non-resident address leaves the
\* cache lines as they were (addresses, values, counts); in the store only
\* the cell of that address changes.
C3_NoWriteAllocate ==
    (WasWrite /\ ~WasHit) =>
        /\ cache_lines = pre_lines
        /\ DOMAIN data_lines = (DOMAIN pre_data) \cup {call.addr}
        /\ \A x \in (DOMAIN pre_data) \ {call.addr} : data_lines[x] = pre_data[x]

\* a write to a non-resident address while the cache holds a line and has room
C3_Witness ==
    /\ WasWrite /\ ~WasHit
    /\ pre_lines # << >>
    /\ Len(pre_lines) < capacity
    /\ data_lines # pre_data

\* C4: Cache.read(a) returns what Store.read(a) returns at that moment: the
\* value alone on a hit as on a miss, absent when the store has no entry.
C4_ReadReturnsStoreValue ==
    WasRead => ret = MemoryBusRead(data_lines, call.addr)

\* C5: after a Cache.read hit on a, a's count is 0 and every other resident
\* entry's count is its value before the call plus 1.
C5_ReadHitTouches ==
    (WasRead /\ WasHit) =>
        /\ Keys(cache_lines) = Keys(pre_lines)
        /\ Line(cache_lines, call.addr).cnt = 0
        /\ \A k \in Keys(pre_lines) \ {call.addr} :
               Line(cache_lines, k).cnt = Line(pre_lines, k).cnt + 1

\* C6: a Cache.read miss that evicts removes exactly one entry, whose count
\* is at least the count of every entry resident at the moment of eviction.
C6_EvictsMaxCounter ==
    (WasRead /\ EvictedKeys # {}) =>
        /\ Cardinality(EvictedKeys) = 1
        /\ \A k \in EvictedKeys, j \in Keys(pre_lines) :
               Line(pre_lines, k).cnt >= Line(pre_lines, j).cnt

\* C7: LRU: the entry a read miss evicts is the resident address whose most
\* recent access through the cache is older than that of every other one.
C7_EvictsLeastRecentlyUsed ==
    [][(call'.op = "read" /\ Keys(cache_lines) \ Keys(cache_lines') # {})
          => Keys(cache_lines) \ Keys(cache_lines') = {Head(access_order)}]_vars

\* C8: allocate-on-read-miss: Cache.read(a) of a non-resident address whose
\* store value is v returns v and leaves a resident with value v; with
\* capacity 1 the cache then holds exactly a.
C8_AllocateOnReadMiss ==
    (WasRead /\ ~WasHit /\ call.addr \in DOMAIN pre_data) =>
        /\ ret = IntV(pre_data[call.addr])
        /\ Resident(cache_lines, call.addr)
        /\ Line(cache_lines, call.addr).data = pre_data[call.addr]
        /\ capacity = 1 => Keys(cache_lines) = {call.addr}

\* with capacity 1, a read of a stored address has replaced the resident one
C8_Witness ==
    /\ capacity = 1
    /\ WasRead /\ ~WasHit
    /\ pre_lines # << >>
    /\ ret.kind = "int"
    /\ Keys(cache_lines) = {call.addr}

\* C9: Cache.read(a) of an address neither resident nor in the store returns
\* absent and changes neither the cache lines nor the store, also when the
\* cache is at capacity.
C9_AbsentReadChangesNothing ==
    (WasRead /\ ~WasHit /\ call.addr \notin DOMAIN pre_data) =>
        /\ ret = None
        /\ cache_lines = pre_lines
        /\ data_lines = pre_data

\* a read of an address the store lacks, from a cache at capacity
C9_Witness ==
    /\ WasRead /\ ~WasHit
    /\ call.addr \notin DOMAIN pre_data
    /\ Len(pre_lines) = capacity
    /\ ret = None

\* the 0-based index of the line fetch_instruction returns at PC
FetchedIndex == IF PC >= 0 THEN PC ELSE Len(instructions) + PC

\* C10: halted is terminal: once run executes a HALT at index i, running is
\* false and PC is i + 1, and registers, PC, running and the cache never
\* change again; the program [ADDI R1,R2,5; ADD R3,R1,R2; HALT; ADDI R1,R1,1]
\* ends with R1=5, R2=0, R3=5, running false and PC 3.
C10_HaltedIsTerminal ==
    /\ [][(running /\ ~running') => PC' = FetchedIndex + 1]_vars
    /\ [][~running => UNCHANGED <<registers, PC, running, cache_lines>>]_vars
    /\ []((instructions = ScenarioB /\ run_status = "returned") =>
             /\ registers = [r \in {"R1", "R2", "R3"} |->
                                IF r = "R2" THEN 0 ELSE 5]
             /\ ~running
             /\ PC = 3)

\* a J whose operand is an integer outside 0..len-1 is about to be executed
JumpsOutOfRange ==
    /\ Executes("J")
    /\ Len(Parts) = 2 /\ IsInt(Parts[2])
    /\ (IntOf(Parts[2]) < 0 \/ IntOf(Parts[2]) >= Len(instructions))

\* C11: a J whose target is out of range, negative or >= the length of the
\* instruction sequence, raises no error and leaves the registers unchanged;
\* the next fetch returns none without executing anything, and run stops
\* Exhausted: returned with running still true.
C11_OutOfRangeJumpExhausts ==
    /\ [][JumpsOutOfRange =>
             (run_status' = "loop" /\ registers' = registers)]_vars
    /\ [][(run_status = "loop" /\ running
              /\ (PC < 0 \/ PC >= Len(instructions))) =>
             (/\ run_status' = "returned"
              /\ running'
              /\ UNCHANGED <<registers, PC, cache_lines, printed>>)]_vars

\* the register names of CPU.__init__
RegisterNames == {"R1", "R2", "R3"}

\* the register operands of the four-part ADD or ADDI about to be executed
RegisterOperands ==
    IF Opcode = "ADDI" THEN {Parts[2], Parts[3]} ELSE {Parts[2], Parts[3], Parts[4]}

NamesUnknownRegister ==
    /\ Executes("ADDI") \/ Executes("ADD")
    /\ Len(Parts) = 4
    /\ ~(RegisterOperands \subseteq RegisterNames)

\* C12: the register file is closed: the register names are always exactly
\* R1, R2, R3, and an ADD or ADDI whose destination or source names another
\* register fails with an error that leaves run and changes no register.
C12_RegisterFileClosed ==
    /\ [](DOMAIN registers = RegisterNames)
    /\ [][NamesUnknownRegister =>
             (run_status' \notin {"loop", "returned"} /\ registers' = registers)]_vars

\* a well-formed CACHE,address is about to be executed
ExecutesCache == Executes("CACHE") /\ Len(Parts) = 2 /\ IsInt(Parts[2])

ScenarioD == << <<"CACHE", ",", "99">>, <<"HALT">> >>

\* C13: executing CACHE,addr makes one Cache.read(addr) from the current
\* cache state and reports what it returned, value or absent; registers and
\* running are unchanged, PC is only advanced by the fetch, and no error is
\* raised, so run goes on: [CACHE,99; HALT] reports absent and ends Halted.
C13_CacheInstruction ==
    /\ [][ExecutesCache =>
             (/\ call' = [op |-> "read", addr |-> IntOf(Parts[2])]
              /\ pre_lines' = cache_lines
              /\ printed' = Append(printed, ret')
              /\ registers' = registers
              /\ running' = running
              /\ PC' = PC + 1
              /\ run_status' = "loop")]_vars
    /\ []((instructions = ScenarioD /\ run_status = "returned") =>
             (printed = <<None>> /\ ~running /\ PC = 2))

\* [CACHE,99; HALT] has run to its end and reported absent
C13_Witness ==
    /\ instructions = ScenarioD
    /\ run_status = "returned"
    /\ printed = <<None>>
    /\ call = [op |-> "read", addr |-> 99]

\* the last call was a read miss that inserted its address
Inserted == WasRead /\ ~WasHit /\ Resident(cache_lines, call.addr)
\* the lines that were resident before the last call and still are
Survivors == Keys(pre_lines) \cap Keys(cache_lines)

C15_WriteHitTouches ==
    (WasWrite /\ WasHit) =>
        /\ Keys(cache_lines) = Keys(pre_lines)
        /\ Len(cache_lines) = Len(pre_lines)
        /\ Line(cache_lines, call.addr).data = call.data
        /\ Line(cache_lines, call.addr).cnt = 0
        /\ \A k \in Keys(pre_lines) \ {call.addr} :
               /\ Line(cache_lines, k).cnt = Line(pre_lines, k).cnt + 1
               /\ Line(cache_lines, k).data = Line(pre_lines, k).data

\* a write of a new value to one of two resident addresses
C15_Witness ==
    /\ WasWrite /\ WasHit
    /\ Len(pre_lines) = 2
    /\ Line(pre_lines, call.addr).data # call.data
    /\ Line(pre_lines, call.addr).cnt > 0

\* an ADDI, or an ADD, whose operands can be evaluated is about to be executed
ExecutesAddi ==
    /\ Executes("ADDI") /\ Len(Parts) = 4
    /\ Parts[3] \in DOMAIN registers /\ IsInt(Parts[4])
ExecutesAdd ==
    /\ Executes("ADD") /\ Len(Parts) = 4
    /\ Parts[3] \in DOMAIN registers /\ Parts[4] \in DOMAIN registers

\* what executing an arithmetic instruction with destination dest leaves alone
ArithmeticFrame(dest) ==
    /\ \A r \in (DOMAIN registers) \ {dest} :
           r \in DOMAIN registers' /\ registers'[r] = registers[r]
    /\ running' = running
    /\ PC' = PC + 1
    /\ run_status' = "loop"
    /\ UNCHANGED <<cache_lines, data_lines, printed>>

\* C16: ADDI dest,src,imm sets registers[dest] to the value registers[src]
\* had before plus imm, ADD dest,src1,src2 to the sum of the values src1 and
\* src2 had before, also when dest is a source; every other register,
\* running, PC (past the fetch), the cache and the store are unchanged.
C16_Arithmetic ==
    /\ [][ExecutesAddi =>
             (/\ registers'[Parts[2]] = registers[Parts[3]] + IntOf(Parts[4])
              /\ ArithmeticFrame(Parts[2]))]_vars
    /\ [][ExecutesAdd =>
             (/\ registers'[Parts[2]] = registers[Parts[3]] + registers[Parts[4]]
              /\ ArithmeticFrame(Parts[2]))]_vars

\* ADDI,R1,R2,5 then ADDI,R1,R1,1, whose destination is its source, have run
C16_Witness ==
    /\ instructions = << <<"ADDI", ",", "R1", ",", "R2", ",", "5">>,
                         <<"ADDI", ",", "R1", ",", "R1", ",", "1">> >>
    /\ PC = 2
    /\ registers["R1"] = 6

\* a line whose opcode is none of the five is about to be executed
ExecutesUnknown ==
    /\ Fetches /\ Truthy(At(PC))
    /\ Opcode \notin {"HALT", "ADDI", "ADD", "J", "CACHE"}

\* C17: executing an instruction whose opcode is none of HALT, ADDI, ADD, J,
\* CACHE raises nothing and changes neither registers, running, PC (past the
\* fetch), the cache nor the store; run continues with the next instruction.
C17_UnknownOpcodeIsNoOp ==
    /\ [][ExecutesUnknown =>
             (/\ PC' = PC + 1
              /\ run_status' = "loop"
              /\ UNCHANGED <<registers, running, cache_lines, data_lines,
                             printed>>)]_vars
    /\ []((instructions = <<<<"NOP">>, <<"HALT">>>> /\ run_status = "returned") =>
             (~running /\ PC = 2))

\* [NOP; HALT] has run past the NOP and halted
C17_Witness ==
    /\ instructions = <<<<"NOP">>, <<"HALT">>>>
    /\ run_status = "returned"
    /\ ~running

\* the two ways run is documented to end
Halted == run_status = "returned" /\ ~running
Exhausted == run_status = "returned" /\ running
                 /\ PC \notin 0..(Len(instructions) - 1)

\* C18: whenever run returns without an error it is Halted (running is false)
\* or Exhausted (PC is no valid index below the length), whatever the text of
\* the lines, empty lines included; running becomes false only by a HALT.
C18_ReturnsHaltedOrExhausted ==
    /\ [](run_status = "returned" => (Halted \/ Exhausted))
    /\ [][(running /\ ~running') => Executes("HALT")]_vars

\* no line of the program has the opcode J
JumpFree == \A i \in 1..Len(instructions) : Split(instructions[i])[1] # "J"

\* C19: a program without any J ends, unless a register error is raised,
\* Halted or Exhausted after at most length(instructions) fetches, each line
\* executed at most once and in increasing index order (PC only ever grows
\* by one, up to the length); the program [J,0] never ends.
C19_JumpFreeTerminates ==
    /\ JumpFree ~> (run_status # "loop")
    /\ []((JumpFree /\ run_status = "returned") => (Halted \/ Exhausted))
    /\ [](JumpFree => PC \in 0..Len(instructions))
    /\ [][JumpFree => (PC' = PC \/ PC' = PC + 1)]_vars
    /\ [](instructions = <<<<"J", ",", "0">>>> => run_status = "loop")

\* C20: coherence: when the store changes only through Cache.write, every
\* resident address is present in the store and its cached value is the
\* store's current value for it.
C20_CacheCoherent ==
    \A i \in 1..Len(cache_lines) :
        /\ cache_lines[i].addr \in DOMAIN data_lines
        /\ cache_lines[i].data = data_lines[cache_lines[i].addr]

\* a write has just changed the value of a resident address, next to another
\* resident line
C20_Witness ==
    /\ WasWrite /\ WasHit
    /\ pre_data[call.addr] # call.data
    /\ Len(cache_lines) >= 2
    /\ Line(cache_lines, call.addr).data = data_lines[call.addr]

====
